---- MODULE Spec2Model ----
(***************************************************************************)
(* A model of dhtrim.py: the head/tail trimming heuristic, the three       *)
(* quality rules, the per-trace trim/validate step and the directory       *)
(* batch with its file-system based merge.                                 *)
(*                                                                         *)
(* The program is Python 2: `/` on two ints is floor division, `reduce`    *)
(* is a builtin.  A trace is a record [name, seq, qual_val]; seq is a      *)
(* sequence of one-character strings, qual_val a sequence of naturals.     *)
(* Python indices are 0-based; seq[i] of the source is seq[i + 1] here.    *)
(***************************************************************************)
EXTENDS Integers, Sequences, FiniteSets

(* ------------------------------ bounds -------------------------------- *)

\* longest trace drawn for the single-trace specification
MaxLen == 7

\* longest base sequence drawn for the rule specification
MaxRuleLen == 4

\* how many times trim_and_merge is run on the same directory
MaxRuns == 2

\* base calls and quality scores the inputs are drawn from: 15 is below
\* half of 61 however the half is taken, 30 is floor(61 / 2) and the rule
\* threshold, 61 is an odd maximum
Bases == {"A", "N"}

Quals == {15, 30, 61}

\* values of the `count` parameter of RuleNoConsecutiveNs
Counts == {1, 2, 3}

(* --------------------------- Python helpers --------------------------- *)

Min(a, b) == IF a < b THEN a ELSE b

Max(a, b) == IF a < b THEN b ELSE a

\* max(lst) of a non-empty list
PyMax(lst) == CHOOSE m \in {lst[i] : i \in 1..Len(lst)} :
                 \A i \in 1..Len(lst) : lst[i] <= m

RECURSIVE PySum(_)
PySum(lst) == IF lst = <<>> THEN 0 ELSE lst[1] + PySum(Tail(lst))

\* lst[::-1] and list.reverse()
PyReverse(lst) == [i \in 1..Len(lst) |-> lst[Len(lst) + 1 - i]]

\* lst[start:end] with Python's clamping of both ends (negative ends count
\* from the right)
PySlice(lst, start, end) ==
  LET n  == Len(lst)
      lo == IF start < 0 THEN Max(n + start, 0) ELSE Min(start, n)
      hi == IF end < 0 THEN Max(n + end, 0) ELSE Min(end, n)
  IN  IF lo >= hi THEN <<>> ELSE SubSeq(lst, lo + 1, hi)

(* ---------------------------- quality rules --------------------------- *)

\* a plausible slip: the running count compared with the configured count
RECURSIVE NoConsecutiveNsScanCount(_, _, _, _)
NoConsecutiveNsScanCount(seq, i, cnt_n, count) ==
  IF i >= Len(seq) THEN TRUE
  ELSE LET c == IF seq[i + 1] = "N" THEN cnt_n + 1 ELSE 0
       IN  IF c >= count THEN FALSE
           ELSE NoConsecutiveNsScanCount(seq, i + 1, c, count)

\* RuleNoConsecutiveNs.is_satisfied: the scan over trimmed.seq from 0-based
\* position i with running count cnt_n.  `val is 'N'` compares identities;
\* CPython keeps one object per one-character string, so it is equality.
\* self.count is only printed: the comparison is against the literal 2.
RECURSIVE NoConsecutiveNsScan(_, _, _, _)
NoConsecutiveNsScan(seq, i, cnt_n, count) ==
  IF i >= Len(seq) THEN TRUE
  ELSE LET c == IF seq[i + 1] = "N" THEN cnt_n + 1 ELSE 0
       IN  IF c >= 2 THEN FALSE
           ELSE NoConsecutiveNsScan(seq, i + 1, c, count)

RuleNoConsecutiveNs(original, trimmed, count) ==
  NoConsecutiveNsScan(trimmed.seq, 0, 0, count)

\* a plausible slip: a 60% threshold
RuleTraceLengthSixty(original, trimmed) ==
  ~ (10 * Len(trimmed.seq) < 6 * Len(original.seq))

\* RuleTraceLength.is_satisfied: len(trimmed.seq) < 0.7 * len(original.seq)
\* fails.  0.7 is the double just below 7/10, so the rounded product never
\* exceeds 7n/10 and no integer lies between them: for integer lengths the
\* comparison is 10 * len(trimmed.seq) < 7 * len(original.seq).
RuleTraceLength(original, trimmed) ==
  ~ (10 * Len(trimmed.seq) < 7 * Len(original.seq))

\* RuleAverageQuality._get_average: sum / len as the fraction <<num, den>>
\* (the float quotient of two small integers compares with 30 as the exact
\* fraction does).  An empty list makes reduce() raise.
_get_average(lst) ==
  IF lst = <<>> THEN "TypeError" ELSE <<PySum(lst), Len(lst)>>

\* a plausible slip: an average of exactly 30 fails too
RuleAverageQualityStrict(original, trimmed) ==
  LET avg == _get_average(trimmed.qual_val)
  IN  ~ (avg[1] <= 30 * avg[2])

\* RuleAverageQuality.is_satisfied: average < 30 fails
RuleAverageQuality(original, trimmed) ==
  LET avg == _get_average(trimmed.qual_val)
  IN  ~ (avg[1] < 30 * avg[2])

\* the rule classes main() configures, in order
main_rules == <<"RuleNoConsecutiveNs", "RuleTraceLength", "RuleAverageQuality">>

\* Rule(original, trimmed).is_satisfied() for a rule class of the list; the
\* rule list constructs RuleNoConsecutiveNs with its default count = 2
is_satisfied(Rule, original, trimmed) ==
  CASE Rule = "RuleNoConsecutiveNs" -> RuleNoConsecutiveNs(original, trimmed, 2)
    [] Rule = "RuleTraceLength"     -> RuleTraceLength(original, trimmed)
    [] Rule = "RuleAverageQuality"  -> RuleAverageQuality(original, trimmed)

\* the '[error]' line a failing rule prints
Diagnostic(Rule) ==
  CASE Rule = "RuleNoConsecutiveNs" -> "More than 2 consecutive Ns"
    [] Rule = "RuleTraceLength"     -> "Too short"
    [] Rule = "RuleAverageQuality"  -> "Intensity too low"

\* a plausible slip: the loop records a failure and goes on to the next rule
RECURSIVE IsQualifiedLoopNoBreak(_, _, _, _, _, _)
IsQualifiedLoopNoBreak(rules, k, original, trimmed, evaluated, errors) ==
  IF k >= Len(rules)
  THEN [ok |-> errors = <<>>, evaluated |-> evaluated, errors |-> errors]
  ELSE IsQualifiedLoopNoBreak(rules, k + 1, original, trimmed,
         Append(evaluated, rules[k + 1]),
         IF is_satisfied(rules[k + 1], original, trimmed) THEN errors
         ELSE Append(errors, Diagnostic(rules[k + 1])))

\* Ab1Trimmer._is_qualified: the loop over the rules from 0-based position
\* k; `evaluated` are the rules whose is_satisfied() ran, `errors` the
\* diagnostics they printed
RECURSIVE IsQualifiedLoop(_, _, _, _, _, _)
IsQualifiedLoop(rules, k, original, trimmed, evaluated, errors) ==
  IF k >= Len(rules)
  THEN [ok |-> TRUE, evaluated |-> evaluated, errors |-> errors]
  ELSE IF ~ is_satisfied(rules[k + 1], original, trimmed)
       THEN [ok |-> FALSE,
             evaluated |-> Append(evaluated, rules[k + 1]),
             errors |-> Append(errors, Diagnostic(rules[k + 1]))]
       ELSE IsQualifiedLoop(rules, k + 1, original, trimmed,
                            Append(evaluated, rules[k + 1]), errors)

_is_qualified(rules, original, trimmed) ==
  IsQualifiedLoop(rules, 0, original, trimmed, <<>>, <<>>)

(* ---------------------------- trim heuristic -------------------------- *)

\* the loop of _get_head_ind_to_trim from 0-based position i up to
\* len(qual_vals) / 3; max(qual_vals) / 2 is floor division of two ints
RECURSIVE HeadScan(_, _, _, _)
HeadScan(seq, qual_vals, i, head_ind) ==
  IF i >= Len(qual_vals) \div 3 THEN head_ind
  ELSE IF qual_vals[i + 1] < PyMax(qual_vals) \div 2
       THEN HeadScan(seq, qual_vals, i + 1, i + 1)
       ELSE IF seq[i + 1] = "N"
            THEN HeadScan(seq, qual_vals, i + 1, i + 1)
            ELSE HeadScan(seq, qual_vals, i + 1, head_ind)

_get_head_ind_to_trim(seq, qual_vals) == HeadScan(seq, qual_vals, 0, 0)

(* ------------------------------- _trim -------------------------------- *)

None == [name |-> "None", seq |-> <<>>, qual_val |-> <<>>]

\* a plausible slip: the tail index taken without the extra - 1
TrimEndNoOffset(n, rev) == n - rev

\* end = len(trace.seq) - 1 - end
TrimEnd(n, rev) == n - 1 - rev

\* Ab1Trimmer._trim on a trace with a non-empty quality list: the window,
\* the candidate (a shallow copy whose seq alone is re-assigned), the
\* verdict of the rules and the value returned
_trim(rules, trace) ==
  LET start   == _get_head_ind_to_trim(trace.seq, trace.qual_val)
      rev     == _get_head_ind_to_trim(PyReverse(trace.seq),
                                       PyReverse(trace.qual_val))
      end     == TrimEnd(Len(trace.seq), rev)
      trimmed == [trace EXCEPT !.seq = PySlice(trace.seq, start, end)]
      q       == _is_qualified(rules, trace, trimmed)
  IN  [start |-> start, rev |-> rev, end |-> end, trimmed |-> trimmed,
       evaluated |-> q.evaluated, errors |-> q.errors,
       result |-> IF ~ q.ok THEN None ELSE trimmed]

(* ------------------------------- state -------------------------------- *)

VARIABLES
  pc,             \* where the running entry point stands
  trace,          \* single file: the decoded trace
  out,            \* single file: what _trim computed and returned
  saved,          \* single file: the records written
  pair,           \* rules: the (original, trimmed) pair a rule is built on
  count,          \* rules: the count given to RuleNoConsecutiveNs
  verdict,        \* rules: the rule evaluated and what is_satisfied returned
  dir,            \* batch: the .ab1 files of the directory, name -> trace
  outdir,         \* batch: whether <dirname>/trimmed exists
  fs,             \* batch: the .fas files of the output directory
  ab1_files,      \* batch: the listing glob returned
  original_list,  \* batch: the traces decoded so far
  pos,            \* batch: how many traces the generator has gone through
  pending,        \* batch: the trace the generator has yielded
  runs,           \* batch: completed runs of trim_and_merge
  log,            \* batch: the steps of the current run, in order
  prevMerged      \* batch: merged.fas as the current run found it

singleVars == <<trace, out, saved>>

ruleVars == <<pair, count, verdict>>

batchVars == <<dir, outdir, fs, ab1_files, original_list, pos, pending, runs,
               log, prevMerged>>

vars == <<pc, singleVars, ruleVars, batchVars>>

NoOut == [start |-> 0, rev |-> 0, end |-> 0, trimmed |-> None,
          evaluated |-> <<>>, errors |-> <<>>, result |-> None]

NoVerdict == [rule |-> "none", ok |-> FALSE]

\* the parts of the state an entry point does not touch
SingleIdle == trace = None /\ out = NoOut /\ saved = <<>>

RulesIdle == pair = <<None, None>> /\ count = 2 /\ verdict = NoVerdict

NoFiles == [n \in {} |-> <<>>]

BatchIdle ==
  /\ dir = NoFiles /\ outdir = FALSE /\ fs = NoFiles /\ ab1_files = <<>>
  /\ original_list = <<>> /\ pos = 0 /\ pending = None /\ runs = 0
  /\ log = <<>> /\ prevMerged = <<>>

\* abi.Trace(fname): a decoded trace, seq and qual_val position-aligned,
\* built from one <<base, quality>> pair per position
Calls == (Bases \X Quals) \ {<<"N", 15>>}

MkTrace(name, calls) ==
  [name |-> name,
   seq |-> [i \in 1..Len(calls) |-> calls[i][1]],
   qual_val |-> [i \in 1..Len(calls) |-> calls[i][2]]]

\* _save_fasta: the record export() writes for a trace
FastaRecord(t) == [name |-> t.name, seq |-> t.seq]

(* ------------------- single trace: trim_single_file ------------------- *)

Init ==
  /\ pc = "ready"
  /\ \E n \in 1..MaxLen : \E calls \in [1..n -> Calls] :
       trace = MkTrace("t", calls)
  /\ out = NoOut
  /\ saved = <<>>
  /\ RulesIdle
  /\ BatchIdle

\* Ab1Trimmer.trim_single_file: _trim, then the record is saved when one
\* was returned
trim_single_file ==
  /\ pc = "ready"
  /\ out' = _trim(main_rules, trace)
  /\ saved' = IF out'.result # None THEN <<FastaRecord(out'.result)>>
              ELSE <<>>
  /\ pc' = "done"
  /\ UNCHANGED <<trace, ruleVars, batchVars>>

Next == trim_single_file

Spec == Init /\ [][Next]_vars

(* ------------------- the rules on their own: is_satisfied ------------- *)

\* a rule object is built on an original trace and a trimmed copy whose
\* seq is a slice of the original's
InitRules ==
  /\ pc = "rule_ready"
  /\ \E n \in 1..MaxRuleLen : \E calls \in [1..n -> Calls] :
       \E a \in 0..n : \E b \in a..n :
         LET original == MkTrace("t", calls)
         IN  pair = <<original,
                      [original EXCEPT !.seq = PySlice(original.seq, a, b)]>>
  /\ count \in Counts
  /\ verdict = NoVerdict
  /\ SingleIdle
  /\ BatchIdle

RuleNoConsecutiveNs_is_satisfied ==
  /\ pc = "rule_ready"
  /\ verdict' = [rule |-> "RuleNoConsecutiveNs",
                 ok |-> RuleNoConsecutiveNs(pair[1], pair[2], count)]
  /\ pc' = "rule_done"
  /\ UNCHANGED <<pair, count, singleVars, batchVars>>

RuleTraceLength_is_satisfied ==
  /\ pc = "rule_ready"
  /\ verdict' = [rule |-> "RuleTraceLength",
                 ok |-> RuleTraceLength(pair[1], pair[2])]
  /\ pc' = "rule_done"
  /\ UNCHANGED <<pair, count, singleVars, batchVars>>

RuleAverageQuality_is_satisfied ==
  /\ pc = "rule_ready"
  /\ verdict' = [rule |-> "RuleAverageQuality",
                 ok |-> RuleAverageQuality(pair[1], pair[2])]
  /\ pc' = "rule_done"
  /\ UNCHANGED <<pair, count, singleVars, batchVars>>

NextRules ==
  \/ RuleNoConsecutiveNs_is_satisfied
  \/ RuleTraceLength_is_satisfied
  \/ RuleAverageQuality_is_satisfied

SpecRules == InitRules /\ [][NextRules]_vars

(* ---------------------- batch: trim_and_merge ------------------------- *)

\* the .ab1 files a directory may hold
Files == {"a", "b", "c"}

\* the traces they decode to: one that passes every rule, one with two
\* adjacent Ns left after trimming, one cut below 70%, one of low quality
PoolCalls ==
  {<<<<"A", 61>>, <<"A", 61>>, <<"A", 61>>, <<"A", 61>>>>,
   <<<<"A", 61>>, <<"N", 61>>, <<"N", 61>>, <<"A", 61>>>>,
   <<<<"N", 61>>, <<"A", 61>>, <<"A", 61>>, <<"A", 61>>>>,
   <<<<"A", 15>>, <<"A", 30>>, <<"A", 30>>, <<"A", 30>>>>}

Directories ==
  UNION {[S -> PoolCalls] : S \in (SUBSET Files) \ {{}}}

\* glob.glob: the names of a set of files in the order the listing has them
Listings(S) ==
  {f \in [1..Cardinality(S) -> S] : \A x \in S : \E i \in DOMAIN f : f[i] = x}

\* open(name, 'w') and write: the file is created or replaced
WriteFile(files, name, content) ==
  [n \in DOMAIN files \cup {name} |-> IF n = name THEN content ELSE files[n]]

\* merged += f.readlines() over the listed files from position i on
RECURSIVE ReadAll(_, _, _)
ReadAll(files, listing, i) ==
  IF i > Len(listing) THEN <<>>
  ELSE files[listing[i]] \o ReadAll(files, listing, i + 1)

Event(op, name, ok) == [op |-> op, name |-> name, ok |-> ok]

InitBatch ==
  /\ pc = "batch_ready"
  /\ \E d \in Directories : dir = [n \in DOMAIN d |-> MkTrace(n, d[n])]
  /\ outdir = FALSE
  /\ fs = NoFiles
  /\ ab1_files = <<>>
  /\ original_list = <<>>
  /\ pos = 0
  /\ pending = None
  /\ runs = 0
  /\ log = <<>>
  /\ prevMerged = <<>>
  /\ SingleIdle
  /\ RulesIdle

\* trim_and_merge, lines 184-189: list the .ab1 files, make the output
\* directory if it is not there
trim_and_merge_begin ==
  /\ pc \in {"batch_ready", "batch_finished"}
  /\ runs < MaxRuns
  /\ ab1_files' \in Listings(DOMAIN dir)
  /\ outdir' = TRUE
  /\ original_list' = <<>>
  /\ pos' = 0
  /\ pending' = None
  /\ log' = <<>>
  /\ prevMerged' = IF "merged" \in DOMAIN fs THEN fs["merged"] ELSE <<>>
  /\ pc' = "batch_decode"
  /\ UNCHANGED <<dir, fs, runs, singleVars, ruleVars>>

\* _trim_all_ab1s, line 161: the list comprehension decodes the next file;
\* the loop below it starts when the whole list is built
decode ==
  /\ pc = "batch_decode"
  /\ Len(original_list) < Len(ab1_files)
  /\ LET fname == ab1_files[Len(original_list) + 1]
     IN  /\ original_list' = Append(original_list, dir[fname])
         /\ log' = Append(log, Event("decode", fname, TRUE))
  /\ pc' = IF Len(original_list') = Len(ab1_files) THEN "batch_trim"
           ELSE "batch_decode"
  /\ UNCHANGED <<dir, outdir, fs, ab1_files, pos, pending, runs, prevMerged,
                 singleVars, ruleVars>>

\* a plausible slip: the traces are collected in a list instead of being
\* yielded one by one, so the next trace is trimmed before this one is saved
trim_next_no_yield ==
  /\ pc = "batch_trim"
  /\ pos < Len(original_list)
  /\ LET t == original_list[pos + 1]
         r == _trim(main_rules, t).result
     IN  log' = Append(log, Event("trim", t.name, r # None))
  /\ pending' = None
  /\ pos' = pos + 1
  /\ pc' = "batch_trim"
  /\ UNCHANGED <<dir, outdir, fs, ab1_files, original_list, runs, prevMerged,
                 singleVars, ruleVars>>

\* _trim_all_ab1s, lines 162-165: the generator trims the next trace and
\* yields it when _trim returned one, else goes on to the one after
trim_next ==
  /\ pc = "batch_trim"
  /\ pos < Len(original_list)
  /\ LET t == original_list[pos + 1]
         r == _trim(main_rules, t).result
     IN  /\ log' = Append(log, Event("trim", t.name, r # None))
         /\ pending' = r
         /\ pos' = IF r = None THEN pos + 1 ELSE pos
         /\ pc' = IF r = None THEN "batch_trim" ELSE "batch_save"
  /\ UNCHANGED <<dir, outdir, fs, ab1_files, original_list, runs, prevMerged,
                 singleVars, ruleVars>>

\* trim_and_merge, line 192: the loop body saves the yielded trace under
\* its name, then the generator is resumed
save_fasta ==
  /\ pc = "batch_save"
  /\ fs' = WriteFile(fs, pending.name, <<FastaRecord(pending)>>)
  /\ log' = Append(log, Event("save", pending.name, TRUE))
  /\ pending' = None
  /\ pos' = pos + 1
  /\ pc' = "batch_trim"
  /\ UNCHANGED <<dir, outdir, ab1_files, original_list, runs, prevMerged,
                 singleVars, ruleVars>>

\* trim_and_merge, lines 195-204: every .fas file the output directory
\* lists is read, and their lines are written to merged.fas
merge ==
  /\ pc = "batch_trim"
  /\ pos = Len(original_list)
  /\ \E fasta_files \in Listings(DOMAIN fs) :
       fs' = WriteFile(fs, "merged", ReadAll(fs, fasta_files, 1))
  /\ runs' = runs + 1
  /\ pc' = "batch_finished"
  /\ UNCHANGED <<dir, outdir, ab1_files, original_list, pos, pending, log,
                 prevMerged, singleVars, ruleVars>>

NextBatch ==
  \/ trim_and_merge_begin
  \/ decode
  \/ trim_next
  \/ save_fasta
  \/ merge

SpecBatch == InitBatch /\ [][NextBatch]_vars

(* -------------------- claims on the single trace ---------------------- *)

Trimmed == pc = "done"

\* C1: every trace _trim returns has as many bases as quality values.
\* The returned trace keeps the full quality list while its bases are
\* sliced, so this fails on every accepted trace.
C1_AcceptedAligned ==
  (Trimmed /\ out.result # None)
    => Len(out.result.seq) = Len(out.result.qual_val)

\* the head index as the claim C3 states it: 0 when no index of the first
\* third is bad, else the largest bad index plus one, an index being bad
\* when twice its quality is below the maximum or its base is 'N'
ClaimedBad(seq, qual_vals) ==
  {i \in 0..(Len(qual_vals) \div 3) - 1 :
     \/ 2 * qual_vals[i + 1] < PyMax(qual_vals)
     \/ seq[i + 1] = "N"}

ClaimedHead(seq, qual_vals) ==
  LET bad == ClaimedBad(seq, qual_vals)
  IN  IF bad = {} THEN 0
      ELSE (CHOOSE i \in bad : \A j \in bad : j <= i) + 1

\* C3: the head index _get_head_ind_to_trim returns is the claimed one, on
\* the forward and on the reversed sequence, and never exceeds floor(n/3).
\* The code compares with floor(max / 2), so a quality of 30 under a
\* maximum of 61 is not bad for the code and bad for the claim.
C3_HeadIndexAsClaimed ==
  Trimmed =>
    /\ out.start = ClaimedHead(trace.seq, trace.qual_val)
    /\ out.rev = ClaimedHead(PyReverse(trace.seq), PyReverse(trace.qual_val))
    /\ out.start <= Len(trace.seq) \div 3
    /\ out.rev <= Len(trace.seq) \div 3

TooShort == 10 * Len(out.trimmed.seq) < 7 * Len(trace.seq)

\* C4: a candidate shorter than 70% of the original is rejected and _trim
\* returns None whatever the other two rules decide; a candidate at or
\* above 70% never draws the length rule's diagnostic.
C4_MinimumLengthRetention ==
  Trimmed =>
    /\ TooShort => (out.result = None /\ ~ RuleTraceLength(trace, out.trimmed))
    /\ ~ TooShort => (/\ RuleTraceLength(trace, out.trimmed)
                      /\ \A k \in 1..Len(out.errors) :
                           out.errors[k] # "Too short")

\* C4's case: a too-short candidate that the other two rules would accept
C4_Witness ==
  /\ Trimmed
  /\ TooShort
  /\ Len(out.trimmed.seq) > 0
  /\ RuleNoConsecutiveNs(trace, out.trimmed, 2)
  /\ RuleAverageQuality(trace, out.trimmed)
  /\ out.result = None

\* C6: the candidate carries the original's whole quality list, the
\* average rule passes exactly when the sum of that list is at least 30
\* times its length, and its diagnostic is only ever printed below that.
C6_AverageOverOriginalQuality ==
  Trimmed =>
    /\ out.trimmed.qual_val = trace.qual_val
    /\ RuleAverageQuality(trace, out.trimmed)
         <=> PySum(trace.qual_val) >= 30 * Len(trace.qual_val)
    /\ (\E k \in 1..Len(out.errors) : out.errors[k] = "Intensity too low")
         => PySum(trace.qual_val) < 30 * Len(trace.qual_val)

\* C6's case: a mean of exactly 30 on a trace whose bases were cut at the
\* head, accepted
C6_Witness ==
  /\ Trimmed
  /\ PySum(trace.qual_val) = 30 * Len(trace.qual_val)
  /\ out.start > 0
  /\ Len(out.trimmed.seq) < Len(out.trimmed.qual_val)
  /\ out.result # None

AllSatisfied ==
  \A k \in 1..Len(main_rules) : is_satisfied(main_rules[k], trace, out.trimmed)

\* C7: _trim returns the candidate when every rule is satisfied and None
\* otherwise; the rules run in the configured order up to and including the
\* first that fails, and at most one diagnostic is printed.
C7_ShortCircuitAnd ==
  Trimmed =>
    /\ out.result # None <=> AllSatisfied
    /\ out.result # None => (/\ out.result = out.trimmed
                             /\ out.evaluated = main_rules
                             /\ out.errors = <<>>)
    /\ out.result = None =>
         LET m == Len(out.evaluated)
         IN  /\ m \in 1..Len(main_rules)
             /\ out.evaluated = SubSeq(main_rules, 1, m)
             /\ \A k \in 1..(m - 1) :
                  is_satisfied(main_rules[k], trace, out.trimmed)
             /\ ~ is_satisfied(main_rules[m], trace, out.trimmed)
             /\ out.errors = <<Diagnostic(main_rules[m])>>
    /\ Len(out.errors) <= 1

\* C7's case: the first rule fails and a later rule that would fail too is
\* never evaluated
C7_Witness ==
  /\ Trimmed
  /\ out.result = None
  /\ out.evaluated = <<"RuleNoConsecutiveNs">>
  /\ ~ RuleAverageQuality(trace, out.trimmed)

\* C9: the candidate is original.seq[start : n - 1 - rev]: its length is
\* max(0, n - 1 - start - rev), its bases are the original's from start on,
\* and the original's last base is never one of them.
C9_LastBaseDropped ==
  Trimmed =>
    LET n == Len(trace.seq)
        m == Max(0, n - 1 - out.start - out.rev)
    IN  /\ out.end = n - 1 - out.rev
        /\ Len(out.trimmed.seq) = m
        /\ out.trimmed.seq = [i \in 1..m |-> trace.seq[out.start + i]]
        /\ \A i \in 1..m : out.start + i < n

\* C9's case: no bad base in either window of a trace of three or more
\* bases, and still one base is cut
C9_Witness ==
  /\ Trimmed
  /\ Len(trace.seq) >= 3
  /\ out.start = 0
  /\ out.rev = 0
  /\ Len(out.trimmed.seq) = Len(trace.seq) - 1

(* --------------------- claims on the rules alone ---------------------- *)

HasNN(seq) == \E i \in 1..(Len(seq) - 1) : seq[i] = "N" /\ seq[i + 1] = "N"

Occurrences(lst, x) == Cardinality({i \in 1..Len(lst) : lst[i] = x})

\* the same records, each as many times, in whatever order
SameRecords(s, t) ==
  /\ Len(s) = Len(t)
  /\ \A i \in 1..Len(s) : Occurrences(s, s[i]) = Occurrences(t, s[i])

\* the records of the traces _trim accepted in the current run
AcceptedRecords ==
  {FastaRecord(_trim(main_rules, dir[log[i].name]).result) :
     i \in {j \in 1..Len(log) : log[j].op = "trim" /\ log[j].ok}}

\* C2: when trim_and_merge finishes, merged.fas holds each record accepted
\* in that run exactly once and nothing else.  A second run on the same
\* directory reads the first run's merged.fas back in, so this fails.
C2_MergedIsAcceptedOnce ==
  pc = "batch_finished" =>
    /\ \A r \in AcceptedRecords : Occurrences(fs["merged"], r) = 1
    /\ \A i \in 1..Len(fs["merged"]) : fs["merged"][i] \in AcceptedRecords

Position(op, name) ==
  IF \E i \in 1..Len(log) : log[i].op = op /\ log[i].name = name
  THEN CHOOSE i \in 1..Len(log) : log[i].op = op /\ log[i].name = name
  ELSE 0

\* C8 as stated: a trace is decoded only after the trace before it in the
\* listing has been trimmed and, when accepted, saved.  The list
\* comprehension decodes every file before the first trace is trimmed.
C8_DecodeAfterPreviousDone ==
  \A j \in 1..(Len(ab1_files) - 1) :
    Position("decode", ab1_files[j + 1]) > 0 =>
      /\ Position("trim", ab1_files[j]) > 0
      /\ Position("trim", ab1_files[j]) < Position("decode", ab1_files[j + 1])

\* C8 as amended: every file is decoded before the first trace is trimmed;
\* from then on a trace is trimmed only after the trace before it has been
\* trimmed and, when accepted, saved, and a save directly follows the trim
\* that accepted the trace.
C8_TrimAfterPreviousDone ==
  /\ \A i \in 1..Len(log) : log[i].op = "trim" =>
       \A f \in DOMAIN dir : Position("decode", f) \in 1..(i - 1)
  /\ \A j \in 1..(Len(ab1_files) - 1) :
       LET t   == Position("trim", ab1_files[j])
           nxt == Position("trim", ab1_files[j + 1])
           sv  == Position("save", ab1_files[j])
       IN  nxt > 0 =>
             /\ t \in 1..(nxt - 1)
             /\ log[t].ok => sv = t + 1 /\ sv < nxt
             /\ ~ log[t].ok => sv = 0
  /\ \A i \in 1..Len(log) : log[i].op = "save" =>
       /\ log[i].name \in DOMAIN fs
       /\ fs[log[i].name] =
            <<FastaRecord(_trim(main_rules, dir[log[i].name]).result)>>

\* C8's case: two accepted traces in a row, the first saved before the
\* second is trimmed
C8_Witness ==
  \E j \in 1..(Len(ab1_files) - 1) :
    LET t   == Position("trim", ab1_files[j])
        nxt == Position("trim", ab1_files[j + 1])
    IN  /\ t > 0 /\ nxt > 0
        /\ log[t].ok /\ log[nxt].ok
        /\ Position("save", ab1_files[j]) \in (t + 1)..(nxt - 1)

\* C10: a second run on the unchanged directory leaves merged.fas with the
\* records the first run left.  The second run's listing of the output
\* directory holds the first run's merged.fas, so every record accepted
\* comes out twice.
C10_RerunKeepsMerged ==
  (pc = "batch_finished" /\ runs >= 2) => SameRecords(fs["merged"], prevMerged)

====
